---------------------------- MODULE Spec2Model ----------------------------
(***************************************************************************)
(* Block segmentation + map-reduce style mining pipeline of                *)
(* agentes/agente_template: StyleMiner (src/estilo_pipeline.py) and the    *)
(* module-level pipeline (src/estilo/minerar_estilo.py).                   *)
(*                                                                         *)
(* Texts are sequences of one-character strings; a payload exchanged with  *)
(* the external service is a sequence of lexical tokens.                   *)
(***************************************************************************)
EXTENDS Integers, Sequences, FiniteSets, TLC

VARIABLES
    impl,             \* "pipeline" (StyleMiner) or "minerar" (minerar_estilo.py)
    salvar_parciais,  \* StyleMiner.salvar_parciais (minerar_estilo.py always saves)
    clean_first,      \* StyleMiner.clean_first
    max_chars,        \* the block budget
    pc,               \* position of the run
    arquivos,         \* the documents of the source directory, in file name order
    corpus,           \* the loaded corpus / the segmenter's texto
    linhas,           \* texto.splitlines() being walked by the segmenter
    li,               \* number of lines already consumed by the segmenter loop
    seg,              \* the segmenter's locals: blocos, atual, tamanho
    blocos,           \* the segmenter's return value
    segmentacoes,     \* every call of the segmenter so far: its text, its max_chars, its result
    i,                \* number of blocks whose loop iteration is complete
    resp,             \* outcome of the last external call: returned text or raised error
    data,             \* the value produced for the current block / by the parser
    analises,         \* the list of per-block results
    parciais,         \* durable per-block records: file name -> content
    final,            \* the aggregate artifact
    stylebook,        \* the durable final artifact file
    relogio,          \* datetime.utcnow()
    chamadas,         \* the external calls made so far in this run, in order
    historico,        \* every aggregation done so far: its input, the call's outcome, its result
    erro              \* the exception that left the run, if any

cfgVars == <<impl, salvar_parciais, clean_first, max_chars>>

segVars == <<linhas, li, seg, blocos, segmentacoes>>

runVars == <<i, resp, data, analises, parciais, final, stylebook, relogio, chamadas, historico, erro>>

vars == <<cfgVars, pc, arquivos, corpus, segVars, runVars>>

-----------------------------------------------------------------------------
(* Bounds of the model *)

MaxTextLen == 6
MaxChars == 3
MaxCoreLen == 4
MaxDocs == 2
MaxStale == 5
MaxCalls == 2
MaxLinha == 3

-----------------------------------------------------------------------------
(* Generic sequence helpers *)

SeqsUpTo(S, n) == UNION {[1..k -> S] : k \in 0..n}

RECURSIVE Flatten(_)
Flatten(ss) == IF ss = <<>> THEN <<>> ELSE Head(ss) \o Flatten(Tail(ss))

RECURSIVE SumLen(_)
SumLen(ss) == IF ss = <<>> THEN 0 ELSE Len(Head(ss)) + SumLen(Tail(ss))

-----------------------------------------------------------------------------
(* str.splitlines, "\n".join and str.split("\n") *)

\* Line boundaries of str.splitlines present in the model's alphabet; the
\* other boundaries (VT, FF, FS, GS, RS, NEL, LS, PS) act like a lone "\r".
LineBreaks == {"\n", "\r"}

RECURSIVE SplitAcc(_, _, _, _)
SplitAcc(s, k, cur, acc) ==
    IF k > Len(s) THEN (IF cur # <<>> THEN Append(acc, cur) ELSE acc)
    ELSE IF s[k] = "\r" /\ k < Len(s) /\ s[k + 1] = "\n"
         THEN SplitAcc(s, k + 2, <<>>, Append(acc, cur))
    ELSE IF s[k] \in LineBreaks THEN SplitAcc(s, k + 1, <<>>, Append(acc, cur))
    ELSE SplitAcc(s, k + 1, Append(cur, s[k]), acc)

splitlines(s) == SplitAcc(s, 1, <<>>, <<>>)

RECURSIVE JoinNL(_)
JoinNL(ls) ==
    IF ls = <<>> THEN <<>>
    ELSE IF Len(ls) = 1 THEN ls[1]
    ELSE ls[1] \o <<"\n">> \o JoinNL(Tail(ls))

\* The lines of an emitted block: the substrings between its "\n" separators.
RECURSIVE SplitNLAcc(_, _, _, _)
SplitNLAcc(s, k, cur, acc) ==
    IF k > Len(s) THEN Append(acc, cur)
    ELSE IF s[k] = "\n" THEN SplitNLAcc(s, k + 1, <<>>, Append(acc, cur))
    ELSE SplitNLAcc(s, k + 1, Append(cur, s[k]), acc)

SplitNL(s) == SplitNLAcc(s, 1, <<>>, <<>>)

BlockLines(bs) == Flatten([k \in 1..Len(bs) |-> SplitNL(bs[k])])

-----------------------------------------------------------------------------
(* The segmenter: _dividir_em_blocos / dividir_em_blocos (identical code) *)

SegInit == [blocos |-> <<>>, atual |-> <<>>, tamanho |-> 0]

SegFlush(st) == [blocos |-> Append(st.blocos, JoinNL(st.atual)), atual |-> <<>>, tamanho |-> 0]

\* A flush that forgets to start the new buffer with the line that did not fit.
SegIterDropsLine(st, ln, mc) ==
    IF st.tamanho + Len(ln) > mc /\ st.atual # <<>>
    THEN SegFlush(st)
    ELSE [st EXCEPT !.atual = Append(@, ln), !.tamanho = @ + Len(ln)]

\* An iteration that lets the tally pass max_chars by one before it closes.
SegIterFolgado(st, ln, mc) ==
    LET st1 == IF st.tamanho + Len(ln) > mc + 1 /\ st.atual # <<>> THEN SegFlush(st) ELSE st
    IN  [st1 EXCEPT !.atual = Append(@, ln), !.tamanho = @ + Len(ln)]

\* An iteration that closes the block as soon as the line fills it.
SegIterFechaCedo(st, ln, mc) ==
    LET st1 == IF st.tamanho + Len(ln) >= mc /\ st.atual # <<>> THEN SegFlush(st) ELSE st
    IN  [st1 EXCEPT !.atual = Append(@, ln), !.tamanho = @ + Len(ln)]

\* An iteration that never closes a block.
SegIterNuncaFecha(st, ln, mc) ==
    [st EXCEPT !.atual = Append(@, ln), !.tamanho = @ + Len(ln)]

\* One iteration of "for linha in texto.splitlines()".
SegIter(st, ln, mc) ==
    LET st1 == IF st.tamanho + Len(ln) > mc /\ st.atual # <<>> THEN SegFlush(st) ELSE st
    IN  [st1 EXCEPT !.atual = Append(@, ln), !.tamanho = @ + Len(ln)]

\* The same iteration in dividir_em_blocos of minerar_estilo.py.
SegIterMinerar(st, ln, mc) ==
    LET st1 == IF st.tamanho + Len(ln) > mc /\ st.atual # <<>> THEN SegFlush(st) ELSE st
    IN  [st1 EXCEPT !.atual = Append(@, ln), !.tamanho = @ + Len(ln)]

\* "if atual: blocos.append(...)" and the return.
SegFinish(st) == IF st.atual # <<>> THEN Append(st.blocos, JoinNL(st.atual)) ELSE st.blocos

RECURSIVE SegLoop(_, _, _)
SegLoop(st, ls, mc) == IF ls = <<>> THEN st ELSE SegLoop(SegIter(st, Head(ls), mc), Tail(ls), mc)

dividir_em_blocos(texto, mc) == SegFinish(SegLoop(SegInit, splitlines(texto), mc))

-----------------------------------------------------------------------------
(* Payload tokens.  A payload is a sequence of tokens: whitespace, the code  *)
(* fence, a language tag, the structural tokens of JSON, the quote that      *)
(* delimits a string literal, the literals 1, null and true, and text.       *)

WS == {" ", "\n"}
Q == "\""
\* The code fence marker (three backquotes), one token.
FENCE == "<fence>"
JsonTags == {"json", "JSON"}

\* str.strip()
RECURSIVE LStrip(_)
LStrip(s) == IF s # <<>> /\ Head(s) \in WS THEN LStrip(Tail(s)) ELSE s

RECURSIVE RStrip(_)
RStrip(s) == IF s # <<>> /\ s[Len(s)] \in WS THEN RStrip(SubSeq(s, 1, Len(s) - 1)) ELSE s

Strip(s) == RStrip(LStrip(s))

\* s[:n]
Take(s, n) == SubSeq(s, 1, IF Len(s) < n THEN Len(s) ELSE n)

-----------------------------------------------------------------------------
(* Decoded values: dict (items in insertion order), list, str, num, null,   *)
(* bool.                                                                     *)

VDict(items) == [t |-> "dict", items |-> items]
VList(elems) == [t |-> "list", elems |-> elems]
VStr(v) == [t |-> "str", v |-> v]
VNum(tok) == [t |-> "num", v |-> <<tok>>]
VNull == [t |-> "null", v |-> <<>>]
VTrue == [t |-> "bool", v |-> <<"true">>]

IsDict(x) == x.t = "dict"

HasKey(d, k) == \E n \in 1..Len(d.items) : d.items[n][1] = k

Get(d, k) == d.items[CHOOSE n \in 1..Len(d.items) : d.items[n][1] = k][2]

\* d[k] = v: an existing key keeps its position, a new key goes last.
DictSet(d, k, v) ==
    IF HasKey(d, k)
    THEN VDict([n \in 1..Len(d.items) |-> IF d.items[n][1] = k THEN <<k, v>> ELSE d.items[n]])
    ELSE VDict(Append(d.items, <<k, v>>))

\* d.setdefault(k, v)
SetDefault(d, k, v) == IF HasKey(d, k) THEN d ELSE DictSet(d, k, v)

-----------------------------------------------------------------------------
(* json.loads over tokens *)

Unescape(tok) == IF tok = "\\n" THEN "\n" ELSE IF tok = "\\\"" THEN Q ELSE tok

Escape(tok) == IF tok = "\n" THEN "\\n" ELSE IF tok = Q THEN "\\\"" ELSE tok

ParseFail == [ok |-> FALSE, val |-> VNull, pos |-> 0]

ParseOk(v, p) == [ok |-> TRUE, val |-> v, pos |-> p]

RECURSIVE SkipWS(_, _)
SkipWS(toks, p) == IF p <= Len(toks) /\ toks[p] \in WS THEN SkipWS(toks, p + 1) ELSE p

\* After the opening quote: the content up to the closing quote; a raw newline
\* inside a string is a control character, which strict decoding rejects.
RECURSIVE ParseString(_, _, _)
ParseString(toks, p, acc) ==
    IF p > Len(toks) THEN ParseFail
    ELSE IF toks[p] = Q THEN ParseOk(VStr(acc), p + 1)
    ELSE IF toks[p] = "\n" THEN ParseFail
    ELSE ParseString(toks, p + 1, Append(acc, Unescape(toks[p])))

RECURSIVE ParseValue(_, _)
RECURSIVE ParseMembers(_, _, _)
RECURSIVE ParseElems(_, _, _)

ParseValue(toks, p0) ==
    LET p == SkipWS(toks, p0) IN
    IF p > Len(toks) THEN ParseFail
    ELSE IF toks[p] = "{" THEN
        LET q == SkipWS(toks, p + 1) IN
        IF q <= Len(toks) /\ toks[q] = "}" THEN ParseOk(VDict(<<>>), q + 1)
        ELSE ParseMembers(toks, q, VDict(<<>>))
    ELSE IF toks[p] = "[" THEN
        LET q == SkipWS(toks, p + 1) IN
        IF q <= Len(toks) /\ toks[q] = "]" THEN ParseOk(VList(<<>>), q + 1)
        ELSE ParseElems(toks, q, <<>>)
    ELSE IF toks[p] = Q THEN ParseString(toks, p + 1, <<>>)
    ELSE IF toks[p] = "1" THEN ParseOk(VNum("1"), p + 1)
    ELSE IF toks[p] = "null" THEN ParseOk(VNull, p + 1)
    ELSE IF toks[p] = "true" THEN ParseOk(VTrue, p + 1)
    ELSE ParseFail

\* At p: a "key": value member, then "," and more members, or "}".
ParseMembers(toks, p, d) ==
    IF p > Len(toks) \/ toks[p] # Q THEN ParseFail
    ELSE LET k == ParseString(toks, p + 1, <<>>) IN
    IF ~k.ok THEN ParseFail
    ELSE LET c == SkipWS(toks, k.pos) IN
    IF c > Len(toks) \/ toks[c] # ":" THEN ParseFail
    ELSE LET v == ParseValue(toks, c + 1) IN
    IF ~v.ok THEN ParseFail
    ELSE LET e == SkipWS(toks, v.pos)
             d1 == DictSet(d, k.val.v, v.val) IN
    IF e > Len(toks) THEN ParseFail
    ELSE IF toks[e] = "," THEN ParseMembers(toks, SkipWS(toks, e + 1), d1)
    ELSE IF toks[e] = "}" THEN ParseOk(d1, e + 1)
    ELSE ParseFail

ParseElems(toks, p, acc) ==
    LET v == ParseValue(toks, p) IN
    IF ~v.ok THEN ParseFail
    ELSE LET e == SkipWS(toks, v.pos) IN
    IF e > Len(toks) THEN ParseFail
    ELSE IF toks[e] = "," THEN ParseElems(toks, e + 1, Append(acc, v.val))
    ELSE IF toks[e] = "]" THEN ParseOk(VList(Append(acc, v.val)), e + 1)
    ELSE ParseFail

\* json.loads: one value and nothing but whitespace after it; ok = FALSE stands
\* for json.JSONDecodeError.
json_loads(toks) ==
    LET r == ParseValue(toks, 1) IN
    IF r.ok /\ SkipWS(toks, r.pos) > Len(toks) THEN r ELSE ParseFail

-----------------------------------------------------------------------------
(* json.dumps(value, ensure_ascii=False, indent=2) *)

RECURSIVE Spaces(_)
Spaces(n) == IF n = 0 THEN <<>> ELSE <<" ">> \o Spaces(n - 1)

DumpStr(v) == <<Q>> \o [n \in 1..Len(v) |-> Escape(v[n])] \o <<Q>>

RECURSIVE Dump(_, _)
RECURSIVE DumpItems(_, _, _)
RECURSIVE DumpElems(_, _, _)

Dump(x, lvl) ==
    IF x.t = "dict" THEN
        IF x.items = <<>> THEN <<"{", "}">>
        ELSE <<"{", "\n">> \o DumpItems(x.items, 1, lvl + 1) \o <<"\n">> \o Spaces(2 * lvl) \o <<"}">>
    ELSE IF x.t = "list" THEN
        IF x.elems = <<>> THEN <<"[", "]">>
        ELSE <<"[", "\n">> \o DumpElems(x.elems, 1, lvl + 1) \o <<"\n">> \o Spaces(2 * lvl) \o <<"]">>
    ELSE IF x.t = "str" THEN DumpStr(x.v)
    ELSE IF x.t = "null" THEN <<"null">>
    ELSE x.v

DumpItems(items, n, lvl) ==
    Spaces(2 * lvl) \o DumpStr(items[n][1]) \o <<":", " ">> \o Dump(items[n][2], lvl)
        \o (IF n = Len(items) THEN <<>> ELSE <<",", "\n">> \o DumpItems(items, n + 1, lvl))

DumpElems(elems, n, lvl) ==
    Spaces(2 * lvl) \o Dump(elems[n], lvl)
        \o (IF n = Len(elems) THEN <<>> ELSE <<",", "\n">> \o DumpElems(elems, n + 1, lvl))

json_dumps(x) == Dump(x, 0)

-----------------------------------------------------------------------------
(* StyleMiner._strip_code_fences:                                           *)
(*   re.sub(r"^```(?:json)?\s*|\s*```$", "", txt, flags=re.I | re.M)        *)

AtLineStart(txt, k) == k = 1 \/ txt[k - 1] = "\n"

AtLineEnd(txt, k) == k > Len(txt) \/ txt[k] = "\n"

\* First alternative at k: the position after the match, 0 when it does not match.
FenceOpenEnd(txt, k) ==
    IF AtLineStart(txt, k) /\ txt[k] = FENCE
    THEN SkipWS(txt, IF k + 1 <= Len(txt) /\ txt[k + 1] \in JsonTags THEN k + 2 ELSE k + 1)
    ELSE 0

\* Second alternative at k.
FenceCloseEnd(txt, k) ==
    LET p == SkipWS(txt, k) IN
    IF p <= Len(txt) /\ txt[p] = FENCE /\ AtLineEnd(txt, p + 1) THEN p + 1 ELSE 0

\* The substitution: every leftmost non-overlapping match is deleted.
RECURSIVE ReSubFences(_, _, _)
ReSubFences(txt, k, acc) ==
    IF k > Len(txt) THEN acc
    ELSE IF FenceOpenEnd(txt, k) > 0 THEN ReSubFences(txt, FenceOpenEnd(txt, k), acc)
    ELSE IF FenceCloseEnd(txt, k) > 0 THEN ReSubFences(txt, FenceCloseEnd(txt, k), acc)
    ELSE ReSubFences(txt, k + 1, Append(acc, txt[k]))

strip_code_fences(payload) ==
    LET txt == Strip(payload) IN
    IF txt # <<>> /\ txt[1] = FENCE THEN ReSubFences(txt, 1, <<>>) ELSE txt

-----------------------------------------------------------------------------
(* _json_load_safely of both implementations *)

AmostraMaxPipeline == 1000
AmostraMaxMinerar == 800

Key(name) == <<name>>

\* What a call did: returned val (exc = "none") or raised exc.
Returned(v) == [exc |-> "none", val |-> v]

Raised(e) == [exc |-> e, val |-> VNull]

ErroParse(payload, n) ==
    VDict(<< <<Key("_erro_parse_json"), VTrue>>,
             <<Key("_amostra_resposta"), VStr(Take(payload, n))>> >>)

\* The text handed to json.loads.
TextoDecodificado(im, payload) ==
    IF im = "pipeline" THEN strip_code_fences(payload) ELSE payload

\* The decoder without its try/except.
JsonLoadUnsafe(im, payload) ==
    LET r == json_loads(TextoDecodificado(im, payload)) IN
    IF r.ok THEN Returned(r.val) ELSE Raised("JSONDecodeError")

\* A marker whose sample is cut from the text handed to json.loads.
JsonLoadAmostraLimpa(im, payload) ==
    LET r == json_loads(TextoDecodificado(im, payload)) IN
    IF r.ok THEN Returned(r.val)
    ELSE Returned(ErroParse(Strip(payload), IF im = "pipeline" THEN AmostraMaxPipeline ELSE AmostraMaxMinerar))

json_load_safely(im, payload) ==
    LET r == json_loads(TextoDecodificado(im, payload)) IN
    IF r.ok THEN Returned(r.val)
    ELSE Returned(ErroParse(payload, IF im = "pipeline" THEN AmostraMaxPipeline ELSE AmostraMaxMinerar))

-----------------------------------------------------------------------------
(* Actions of the segmenter *)

\* One call of the segmenter.
Segmentacao(texto, mc, resultado) == [texto |-> texto, max_chars |-> mc, blocos |-> resultado]

\* An entry that keeps the list of blocks of the call before.
SegEntrarSemReset ==
    /\ pc = "CorpusLoaded"
    /\ linhas' = splitlines(corpus)
    /\ li' = 0
    /\ seg' = [blocos |-> blocos, atual |-> <<>>, tamanho |-> 0]
    /\ pc' = "Segmenting"
    /\ UNCHANGED <<cfgVars, arquivos, corpus, blocos, segmentacoes, runVars>>

\* Entry of the segmenter: texto.splitlines() and the three locals.
SegEntrar ==
    /\ pc = "CorpusLoaded"
    /\ linhas' = splitlines(corpus)
    /\ li' = 0
    /\ seg' = SegInit
    /\ pc' = "Segmenting"
    /\ UNCHANGED <<cfgVars, arquivos, corpus, blocos, segmentacoes, runVars>>

SegLinha ==
    /\ pc = "Segmenting"
    /\ li < Len(linhas)
    /\ seg' = IF impl = "minerar"
              THEN SegIterMinerar(seg, linhas[li + 1], max_chars)
              ELSE SegIter(seg, linhas[li + 1], max_chars)
    /\ li' = li + 1
    /\ UNCHANGED <<cfgVars, pc, arquivos, corpus, linhas, blocos, segmentacoes, runVars>>

SegFim ==
    /\ pc = "Segmenting"
    /\ li = Len(linhas)
    /\ blocos' = SegFinish(seg)
    /\ segmentacoes' = Append(segmentacoes, Segmentacao(corpus, max_chars, blocos'))
    /\ pc' = "Segmented"
    /\ UNCHANGED <<cfgVars, arquivos, corpus, linhas, li, seg, runVars>>

-----------------------------------------------------------------------------
(* The segmenter applied to every text over a small alphabet *)

SegAlphabet == {"a", "\n", "\r"}

NoResp == [exc |-> "none", out |-> <<>>, msg |-> <<>>]

NoData == Returned(VNull)

\* The run's variables before the run has touched them.
RunVarsIdle ==
    /\ i = 0
    /\ resp = NoResp
    /\ data = NoData
    /\ analises = <<>>
    /\ parciais = <<>>
    /\ final = VNull
    /\ stylebook = <<>>
    /\ relogio = 1
    /\ chamadas = <<>>
    /\ historico = <<>>
    /\ erro = "none"

\* Three lines of n characters each.
TresLinhas(n) ==
    LET ln == [k \in 1..n |-> "a"] IN ln \o <<"\n">> \o ln \o <<"\n">> \o ln

InitSeg ==
    /\ impl \in {"pipeline", "minerar"}
    /\ salvar_parciais = TRUE
    /\ clean_first = FALSE
    /\ max_chars \in 1..MaxChars
    /\ pc = "CorpusLoaded"
    /\ arquivos = <<>>
    /\ corpus \in SeqsUpTo(SegAlphabet, MaxTextLen) \cup {TresLinhas(n) : n \in 1..MaxLinha}
    /\ linhas = <<>>
    /\ li = 0
    /\ seg = SegInit
    /\ blocos = <<>>
    /\ segmentacoes = <<>>
    /\ RunVarsIdle

\* The segmenter is called again with the same arguments.
SegDeNovo ==
    /\ pc = "Segmented"
    /\ Len(segmentacoes) < MaxCalls
    /\ pc' = "CorpusLoaded"
    /\ UNCHANGED <<cfgVars, arquivos, corpus, segVars, runVars>>

NextSeg == SegEntrar \/ SegLinha \/ SegFim \/ SegDeNovo

SpecSeg == InitSeg /\ [][NextSeg]_vars

-----------------------------------------------------------------------------
(* Payloads of the external service *)

\* Responses the external service may give: a record, a record that brings its
\* own provenance fields, a list, and text that is no JSON.
RDict == <<"{", Q, "tom", Q, ":", " ", Q, "a", Q, "}">>

RDictProv ==
    <<"{", Q, "versao", Q, ":", Q, "9", Q, ",", Q, "gerado_em", Q, ":", Q, "ontem", Q, ",",
      Q, "_fonte", Q, ":", Q, "outro", Q, "}">>

RList == <<"[", "1", "]">>

RBad == <<"not", " ", "json">>

\* Valid JSON texts that decode to a string, a number and null.
RStr == <<Q, "not", " ", "json", Q>>

RNum == <<"1">>

RNull == <<"null">>

KnownPayloads == {RDict, RDictProv, RList, RBad}

Wrappers == {"bare", "fence", "json", "JSON", "py", "padded"}

\* The fences the parser is expected to strip: no tag, or the tag json in any case.
JsonWrappers == {"fence", "json", "JSON", "padded"}

Wrap(w, core) ==
    CASE w = "bare" -> core
      [] w = "fence" -> <<FENCE, "\n">> \o core \o <<"\n", FENCE>>
      [] w = "json" -> <<FENCE, "json", "\n">> \o core \o <<"\n", FENCE>>
      [] w = "JSON" -> <<FENCE, "JSON", "\n">> \o core \o <<"\n", FENCE>>
      [] w = "py" -> <<FENCE, "py", "\n">> \o core \o <<"\n", FENCE>>
      [] w = "padded" -> <<" ", FENCE, "json", " ", "\n">> \o core \o <<"\n", FENCE, "\n">>

-----------------------------------------------------------------------------
(* The run: carregar_corpus, analisar_por_blocos, fundir_analises,          *)
(* salvar_final (StyleMiner.rodar) and minerar_estilo                        *)

\* limpar_texto_bruto over texts of letters and whitespace, in which RE_TIMECODE
\* and RE_BRACKETS match nothing: re.sub(r"\s+", " ", texto).strip()
RECURSIVE CollapseWS(_, _)
CollapseWS(s, acc) ==
    IF s = <<>> THEN acc
    ELSE IF Head(s) \in WS
         THEN CollapseWS(Tail(s), IF acc # <<>> /\ acc[Len(acc)] = " " THEN acc ELSE Append(acc, " "))
    ELSE CollapseWS(Tail(s), Append(acc, Head(s)))

limpar_texto_bruto(texto) == Strip(CollapseWS(texto, <<>>))

\* "\n\n".join(textos)
RECURSIVE JoinBlank(_)
JoinBlank(ts) ==
    IF ts = <<>> THEN <<>>
    ELSE IF Len(ts) = 1 THEN ts[1]
    ELSE ts[1] \o <<"\n", "\n">> \o JoinBlank(Tail(ts))

\* A corpus that is joined but not trimmed.
CorpusDeSemStrip(docs, clean) ==
    JoinBlank([n \in 1..Len(docs) |->
                  IF clean THEN limpar_texto_bruto(docs[n]) ELSE docs[n]])

\* The corpus of a directory: its documents in file name order.
CorpusDe(docs, clean) ==
    Strip(JoinBlank([n \in 1..Len(docs) |->
                        IF clean THEN limpar_texto_bruto(docs[n]) ELSE docs[n]]))

\* Documents a source directory may hold: empty, whitespace only, one line, two lines.
Docs == {<<>>, <<" ", "\n">>, <<"a">>, <<"a", "\n", "a", "a">>}

Dirs == SeqsUpTo(Docs, MaxDocs)

\* A file name that keeps the last two digits of the index.
NomeParcialDoisDigitos(n) ==
    <<"stylebook_parcial_", ToString((n % 100) \div 10), ToString(n % 10), ".json">>

\* f"stylebook_parcial_{i:02}.json"
RECURSIVE Digits(_)
Digits(n) == IF n < 10 THEN <<ToString(n)>> ELSE Digits(n \div 10) \o <<ToString(n % 10)>>

NomeParcial(n) ==
    <<"stylebook_parcial_">> \o (IF n < 10 THEN <<"0">> ELSE <<>>) \o Digits(n) \o <<".json">>

\* Path.write_text: the file is created or fully overwritten.
\* A write that never reaches the file.
WriteTextPerdido(fs, nome, conteudo) == fs

\* A write into a directory emptied first.
WriteTextApaga(fs, nome, conteudo) == [n \in {nome} |-> conteudo]

WriteText(fs, nome, conteudo) ==
    [n \in DOMAIN fs \cup {nome} |-> IF n = nome THEN conteudo ELSE fs[n]]

\* Content left at the destinations by an earlier run.
Velho == <<"velho">>

ParciaisVelhas == [n \in {NomeParcial(k) : k \in 1..MaxStale} |-> Velho]

\* The external capability raises, or returns any string.
ErroIA == <<"boom">>

BlockResponses == {RDict, RList, RBad, Wrap("json", RDict)}

FusionResponses == {RDict, RDictProv, RList, RStr, RNum, RNull, RBad, Wrap("json", RDict)}

Outcomes(responses) ==
    {[exc |-> "Exception", out |-> <<>>, msg |-> ErroIA]}
        \cup {[exc |-> "none", out |-> x, msg |-> <<>>] : x \in responses}

\* A marker that keeps the flag and loses the error's text.
ErroChamadaSemMensagem(msg) ==
    VDict(<< <<Key("_erro_chamada_ia"), VTrue>> >>)

\* {"_erro_chamada_ia": True, "_mensagem": str(e)}
ErroChamada(msg) ==
    VDict(<< <<Key("_erro_chamada_ia"), VTrue>>, <<Key("_mensagem"), VStr(msg)>> >>)

\* A fusion failure reported in the shape of the parser's marker.
ErroFusaoComoParse(msg) == ErroParse(msg, AmostraMaxMinerar)

ErroFusao(msg) ==
    VDict(<< <<Key("_erro_fusao"), VTrue>>, <<Key("_mensagem"), VStr(msg)>> >>)

\* A loop body without the try/except around the external call.
AnalisarBlocoNoCatch(im, r) ==
    IF r.exc # "none" THEN Raised(r.exc) ELSE json_load_safely(im, r.out)

\* The body of the per-block loop up to "data": StyleMiner decodes inside the
\* try, minerar_estilo.py in its else branch.
AnalisarBloco(im, r) ==
    IF r.exc # "none" THEN Returned(ErroChamada(r.msg))
    ELSE LET d == json_load_safely(im, r.out) IN
         IF im = "pipeline" /\ d.exc # "none" THEN Returned(ErroChamada(<<d.exc>>)) ELSE d

\* An aggregator without the try/except around the fusion call.
FundirResultadoNoCatch(im, r) ==
    IF r.exc # "none" THEN Raised(r.exc) ELSE json_load_safely(im, r.out)

\* fundir_analises up to the decoded fusion result.
FundirResultado(im, r) ==
    IF r.exc # "none" THEN Returned(ErroFusao(r.msg))
    ELSE LET d == json_load_safely(im, r.out) IN
         IF im = "pipeline" /\ d.exc # "none" THEN Returned(ErroFusao(<<d.exc>>)) ELSE d

\* str(value) of a decoded value that is no dict, and repr of what it holds.
RECURSIVE PyRepr(_)
RECURSIVE PyReprSeq(_, _)
RECURSIVE PyReprItems(_, _)
PyRepr(x) ==
    IF x.t = "str" THEN <<"'">> \o x.v \o <<"'">>
    ELSE IF x.t = "num" THEN x.v
    ELSE IF x.t = "null" THEN <<"None">>
    ELSE IF x.t = "bool" THEN <<"True">>
    ELSE IF x.t = "list" THEN <<"[">> \o PyReprSeq(x.elems, 1) \o <<"]">>
    ELSE <<"{">> \o PyReprItems(x.items, 1) \o <<"}">>

PyReprItems(its, n) ==
    IF n > Len(its) THEN <<>>
    ELSE <<"'">> \o its[n][1] \o <<"'", ":", " ">> \o PyRepr(its[n][2])
            \o (IF n = Len(its) THEN <<>> ELSE <<",", " ">> \o PyReprItems(its, n + 1))

PyReprSeq(xs, n) ==
    IF n > Len(xs) THEN <<>>
    ELSE PyRepr(xs[n]) \o (IF n = Len(xs) THEN <<>> ELSE <<",", " ">> \o PyReprSeq(xs, n + 1))

PyStr(x) == IF x.t = "str" THEN x.v ELSE PyRepr(x)

AmostraFormatoMax == 800

VERSAO == VStr(<<"2.0-blocos">>)

FONTE == VStr(<<"fusao_de_blocos">>)

\* datetime.utcnow().isoformat()
IsoFormat(now) == VStr(<<"T", ToString(now)>>)

\* A provenance step without the isinstance test: what is no record passes as it is.
CarimbarSemTroca(x, now) ==
    IF IsDict(x)
    THEN SetDefault(DictSet(SetDefault(x, Key("versao"), VERSAO), Key("gerado_em"), IsoFormat(now)),
                    Key("_fonte"), FONTE)
    ELSE x

\* A provenance step that assigns the version tag instead of defaulting it.
CarimbarSobrescreveVersao(x, now) ==
    IF IsDict(x)
    THEN SetDefault(DictSet(DictSet(x, Key("versao"), VERSAO), Key("gerado_em"), IsoFormat(now)),
                    Key("_fonte"), FONTE)
    ELSE VDict(<< <<Key("_erro_formato"), VTrue>>,
                  <<Key("_amostra"), VStr(Take(PyStr(x), AmostraFormatoMax))>>,
                  <<Key("versao"), VERSAO>>,
                  <<Key("gerado_em"), IsoFormat(now)>>,
                  <<Key("_fonte"), FONTE>> >>)

\* A provenance step whose default version tag is the time of the aggregation.
CarimbarVersaoDatada(x, now) ==
    IF IsDict(x)
    THEN SetDefault(DictSet(SetDefault(x, Key("versao"), IsoFormat(now)), Key("gerado_em"), IsoFormat(now)),
                    Key("_fonte"), FONTE)
    ELSE VDict(<< <<Key("_erro_formato"), VTrue>>,
                  <<Key("_amostra"), VStr(Take(PyStr(x), AmostraFormatoMax))>>,
                  <<Key("versao"), IsoFormat(now)>>,
                  <<Key("gerado_em"), IsoFormat(now)>>,
                  <<Key("_fonte"), FONTE>> >>)

\* A fallback record built without the provenance fields.
CarimbarSemFallback(x, now) ==
    IF IsDict(x)
    THEN SetDefault(DictSet(SetDefault(x, Key("versao"), VERSAO), Key("gerado_em"), IsoFormat(now)),
                    Key("_fonte"), FONTE)
    ELSE VDict(<< <<Key("_erro_formato"), VTrue>>,
                  <<Key("_amostra"), VStr(Take(PyStr(x), AmostraFormatoMax))>> >>)

\* The provenance step: "if isinstance(final, dict): ... else: ...".
Carimbar(x, now) ==
    IF IsDict(x)
    THEN SetDefault(DictSet(SetDefault(x, Key("versao"), VERSAO), Key("gerado_em"), IsoFormat(now)),
                    Key("_fonte"), FONTE)
    ELSE VDict(<< <<Key("_erro_formato"), VTrue>>,
                  <<Key("_amostra"), VStr(Take(PyStr(x), AmostraFormatoMax))>>,
                  <<Key("versao"), VERSAO>>,
                  <<Key("gerado_em"), IsoFormat(now)>>,
                  <<Key("_fonte"), FONTE>> >>)

\* A list that grows at the front.
AnexarNaFrente(lista, x) == <<x>> \o lista

\* analises.append(data)
Anexar(lista, x) == Append(lista, x)

\* minerar_estilo.py has no switch: every partial is written.
Salva == impl = "minerar" \/ salvar_parciais

\* One call of fundir_analises followed by the provenance step.
Agregacao(entrada, res, saida) == [analises |-> entrada, res |-> res, final |-> saida]

\* One external call: the template key, the text interpolated, and what came back.
Chamada(chave, arg, res) == [chave |-> chave, arg |-> arg, res |-> res]

\* A corpus loader that clears the destinations when it finds nothing.
CarregarCorpusLimpa ==
    /\ pc = "Idle"
    /\ corpus' = CorpusDe(arquivos, clean_first)
    /\ pc' = IF corpus' = <<>> THEN "Failed" ELSE "CorpusLoaded"
    /\ erro' = IF corpus' = <<>> THEN "RuntimeError" ELSE erro
    /\ parciais' = IF corpus' = <<>> THEN <<>> ELSE parciais
    /\ stylebook' = IF corpus' = <<>> THEN <<>> ELSE stylebook
    /\ UNCHANGED <<cfgVars, historico, arquivos, segVars, i, resp, data, analises, final,
                   relogio, chamadas>>

\* carregar_corpus / step 1 of minerar_estilo: the documents are read, joined
\* and trimmed; an empty corpus raises RuntimeError.
CarregarCorpus ==
    /\ pc = "Idle"
    /\ corpus' = CorpusDe(arquivos, clean_first)
    /\ pc' = IF corpus' = <<>> THEN "Failed" ELSE "CorpusLoaded"
    /\ erro' = IF corpus' = <<>> THEN "RuntimeError" ELSE erro
    /\ UNCHANGED <<cfgVars, historico, arquivos, segVars, i, resp, data, analises, parciais, final, stylebook,
                   relogio, chamadas>>

\* The external call of one loop iteration: it returns a string or raises.
BlocoChamar ==
    /\ pc = "Segmented"
    /\ i < Len(blocos)
    /\ resp' \in Outcomes(BlockResponses)
    /\ chamadas' = Append(chamadas, Chamada("MINERAR_ESTILO_BLOCO", blocos[i + 1], resp'))
    /\ pc' = "BlockCalled"
    /\ UNCHANGED <<cfgVars, historico, arquivos, corpus, segVars, i, data, analises, parciais, final, stylebook,
                   relogio, erro>>

\* except / decode, then analises.append(data).
BlocoRegistrar ==
    /\ pc = "BlockCalled"
    /\ data' = AnalisarBloco(impl, resp)
    /\ analises' = IF data'.exc = "none" THEN Anexar(analises, data'.val) ELSE analises
    /\ erro' = data'.exc
    /\ pc' = IF data'.exc = "none" THEN "BlockRecorded" ELSE "Failed"
    /\ UNCHANGED <<cfgVars, historico, arquivos, corpus, segVars, i, resp, parciais, final, stylebook, relogio,
                   chamadas>>

\* The per-block record, when partials are saved, and the end of the iteration.
BlocoSalvar ==
    /\ pc = "BlockRecorded"
    /\ parciais' = IF Salva THEN WriteText(parciais, NomeParcial(i + 1), json_dumps(data.val))
                   ELSE parciais
    /\ i' = i + 1
    /\ pc' = "Segmented"
    /\ UNCHANGED <<cfgVars, historico, arquivos, corpus, segVars, resp, data, analises, final, stylebook, relogio,
                   chamadas, erro>>

\* A loop exit that waits for an index past the last block.
BlocosFimForaDoLimite ==
    /\ pc = "Segmented"
    /\ i = Len(blocos) + 1
    /\ pc' = "BlocksAnalyzed"
    /\ UNCHANGED <<cfgVars, arquivos, corpus, segVars, runVars>>

\* The loop is exhausted: "return analises".
BlocosFim ==
    /\ pc = "Segmented"
    /\ i = Len(blocos)
    /\ pc' = "BlocksAnalyzed"
    /\ UNCHANGED <<cfgVars, arquivos, corpus, segVars, runVars>>

\* The fusion call, carrying json.dumps(analises).
FundirChamar ==
    /\ pc = "BlocksAnalyzed"
    /\ resp' \in Outcomes(FusionResponses)
    /\ chamadas' = Append(chamadas, Chamada("MINERAR_ESTILO_FUSAO", json_dumps(VList(analises)), resp'))
    /\ pc' = "FusionCalled"
    /\ UNCHANGED <<cfgVars, historico, arquivos, corpus, segVars, i, data, analises, parciais, final, stylebook,
                   relogio, erro>>

\* except / decode, then the provenance fields.
FundirProcessar ==
    /\ pc = "FusionCalled"
    /\ data' = FundirResultado(impl, resp)
    /\ final' = IF data'.exc = "none" THEN Carimbar(data'.val, relogio) ELSE final
    /\ relogio' = relogio + 1
    /\ historico' = IF data'.exc = "none"
                    THEN Append(historico, Agregacao(analises, resp, final'))
                    ELSE historico
    /\ erro' = data'.exc
    /\ pc' = IF data'.exc = "none" THEN "Aggregated" ELSE "Failed"
    /\ UNCHANGED <<cfgVars, arquivos, corpus, segVars, i, resp, analises, parciais, stylebook, chamadas>>

\* A final write that appends to what the file holds.
SalvarFinalAnexa ==
    /\ pc = "Aggregated"
    /\ stylebook' = stylebook \o json_dumps(final)
    /\ pc' = "Persisted"
    /\ UNCHANGED <<cfgVars, historico, arquivos, corpus, segVars, i, resp, data, analises, parciais, final,
                   relogio, chamadas, erro>>

\* salvar_final / step 5 of minerar_estilo.
SalvarFinal ==
    /\ pc = "Aggregated"
    /\ stylebook' = json_dumps(final)
    /\ pc' = "Persisted"
    /\ UNCHANGED <<cfgVars, historico, arquivos, corpus, segVars, i, resp, data, analises, parciais, final, relogio,
                   chamadas, erro>>

Init ==
    /\ impl \in {"pipeline", "minerar"}
    /\ salvar_parciais \in (IF impl = "pipeline" THEN BOOLEAN ELSE {TRUE})
    /\ clean_first \in (IF impl = "pipeline" THEN BOOLEAN ELSE {FALSE})
    /\ max_chars \in 1..MaxChars
    /\ pc = "Idle"
    /\ arquivos \in Dirs
    /\ corpus = <<>>
    /\ linhas = <<>>
    /\ li = 0
    /\ seg = SegInit
    /\ blocos = <<>>
    /\ segmentacoes = <<>>
    /\ i = 0
    /\ resp = NoResp
    /\ data = NoData
    /\ analises = <<>>
    /\ \E velho \in BOOLEAN :
          /\ parciais = IF velho THEN ParciaisVelhas ELSE <<>>
          /\ stylebook = IF velho THEN Velho ELSE <<>>
    /\ final = VNull
    /\ relogio = 1
    /\ chamadas = <<>>
    /\ historico = <<>>
    /\ erro = "none"

Next ==
    \/ CarregarCorpus
    \/ SegEntrar
    \/ SegLinha
    \/ SegFim
    \/ BlocoChamar
    \/ BlocoRegistrar
    \/ BlocoSalvar
    \/ BlocosFim
    \/ FundirChamar
    \/ FundirProcessar
    \/ SalvarFinal

Spec == Init /\ [][Next]_vars

\* The run under its scheduling: the statements of a run follow one another
\* without pause, and every external call returns or raises.
MaxDocsJusta == 1

InitJusta ==
    /\ Init
    /\ Len(arquivos) <= MaxDocsJusta

\* The except/decode step of a block and of the fusion has no condition but
\* its place in the run: control at the step leaves it.
BlocoDecodificado == pc = "BlockCalled" /\ pc' \in {"BlockRecorded", "Failed"}

FusaoDecodificada == pc = "FusionCalled" /\ pc' \in {"Aggregated", "Failed"}

Justica ==
    /\ WF_vars(CarregarCorpus)
    /\ WF_vars(SegEntrar)
    /\ WF_vars(SegLinha)
    /\ WF_vars(SegFim)
    /\ WF_vars(BlocoChamar)
    /\ WF_pc(BlocoDecodificado)
    /\ WF_vars(BlocoSalvar)
    /\ WF_vars(BlocosFim)
    /\ WF_vars(FundirChamar)
    /\ WF_pc(FusaoDecodificada)
    /\ WF_vars(SalvarFinal)

SpecJusta == InitJusta /\ [][Next]_vars /\ Justica

\* A run started with --max_chars 0 or below: argparse converts the value
\* with int and hands it on; neither main nor the run looks at its sign.
MaxNaoPositivo == 1

InitArgs ==
    /\ impl \in {"pipeline", "minerar"}
    /\ salvar_parciais \in (IF impl = "pipeline" THEN BOOLEAN ELSE {TRUE})
    /\ clean_first \in (IF impl = "pipeline" THEN BOOLEAN ELSE {FALSE})
    /\ max_chars \in (0 - MaxNaoPositivo)..0
    /\ pc = "Idle"
    /\ arquivos \in Dirs
    /\ Len(arquivos) <= MaxDocsJusta
    /\ corpus = <<>>
    /\ linhas = <<>>
    /\ li = 0
    /\ seg = SegInit
    /\ blocos = <<>>
    /\ segmentacoes = <<>>
    /\ i = 0
    /\ resp = NoResp
    /\ data = NoData
    /\ analises = <<>>
    /\ parciais = <<>>
    /\ stylebook = <<>>
    /\ final = VNull
    /\ relogio = 1
    /\ chamadas = <<>>
    /\ historico = <<>>
    /\ erro = "none"

SpecArgs == InitArgs /\ [][Next]_vars

-----------------------------------------------------------------------------
(* Several runs, one after the other, against the same destinations *)

\* Runs are started while the clock is at most MaxRuns.
MaxRuns == 2

\* File names are compared for the indices 1..MaxIndice.
MaxIndice == 101

\* The directory of a run of this sequence: no document, or one one-line document.
DirsRuns == {<<>>, << <<"a">> >>}

\* rodar() / minerar_estilo() is entered again after a run has ended: every
\* local starts afresh, the files and the clock carry on.
NovaExecucao ==
    /\ pc \in {"Persisted", "Failed"}
    /\ relogio <= MaxRuns
    /\ arquivos' \in DirsRuns
    /\ pc' = "Idle"
    /\ corpus' = <<>>
    /\ linhas' = <<>>
    /\ li' = 0
    /\ seg' = SegInit
    /\ blocos' = <<>>
    /\ i' = 0
    /\ resp' = NoResp
    /\ data' = NoData
    /\ analises' = <<>>
    /\ final' = VNull
    /\ chamadas' = <<>>
    /\ erro' = "none"
    /\ UNCHANGED <<cfgVars, segmentacoes, parciais, stylebook, relogio, historico>>

InitRuns ==
    /\ Init
    /\ arquivos \in DirsRuns
    /\ max_chars = 1

NextRuns ==
    \/ CarregarCorpus
    \/ SegEntrar
    \/ SegLinha
    \/ SegFim
    \/ BlocoChamar
    \/ BlocoRegistrar
    \/ BlocoSalvar
    \/ BlocosFim
    \/ FundirChamar
    \/ FundirProcessar
    \/ SalvarFinal
    \/ NovaExecucao

SpecRuns == InitRuns /\ [][NextRuns]_vars

-----------------------------------------------------------------------------
(* The result parser applied to every short payload, bare and fenced *)

CoreAlphabet == {"{", "}", "[", "]", Q, "a", "1", "\n"}

Cores == SeqsUpTo(CoreAlphabet, MaxCoreLen) \cup KnownPayloads

\* Undecodable texts around the two sample limits, as received and with a leading blank.
Fill(n) == [k \in 1..n |-> "x"]

Longos ==
    LET ns == {AmostraMaxMinerar - 1, AmostraMaxMinerar, AmostraMaxMinerar + 1,
               AmostraMaxPipeline - 1, AmostraMaxPipeline, AmostraMaxPipeline + 1}
    IN  {Fill(n) : n \in ns} \cup {<<" ">> \o Fill(n) : n \in ns}

ParsePayloads == {Wrap(w, c) : w \in Wrappers, c \in Cores} \cup Longos

InitParse ==
    /\ impl \in {"pipeline", "minerar"}
    /\ salvar_parciais = TRUE
    /\ clean_first = FALSE
    /\ max_chars = 1
    /\ pc = "ParseCall"
    /\ arquivos = <<>>
    /\ corpus = <<>>
    /\ linhas = <<>>
    /\ li = 0
    /\ seg = SegInit
    /\ blocos = <<>>
    /\ segmentacoes = <<>>
    /\ i = 0
    /\ resp \in {[exc |-> "none", out |-> x, msg |-> <<>>] : x \in ParsePayloads}
    /\ data = NoData
    /\ analises = <<>>
    /\ parciais = <<>>
    /\ final = VNull
    /\ stylebook = <<>>
    /\ relogio = 1
    /\ chamadas = <<>>
    /\ historico = <<>>
    /\ erro = "none"

\* _json_load_safely(payload)
Parsear ==
    /\ pc = "ParseCall"
    /\ data' = json_load_safely(impl, resp.out)
    /\ pc' = "Parsed"
    /\ UNCHANGED <<cfgVars, historico, arquivos, corpus, segVars, i, resp, analises, parciais, final, stylebook,
                   relogio, chamadas, erro>>

NextParse == Parsear

SpecParse == InitParse /\ [][NextParse]_vars

-----------------------------------------------------------------------------
(* Parser claims *)

IsParseMarker(x) ==
    /\ IsDict(x)
    /\ HasKey(x, Key("_erro_parse_json"))
    /\ HasKey(x, Key("_amostra_resposta"))

\* C9: for every payload the parser returns a value and raises nothing; when the
\* decoding fails the value is the failure marker, whose flag is true and whose
\* sample is a leading part of the payload as received; otherwise it is the
\* decoded value.
C9_ParserSafe ==
    pc = "Parsed" =>
        /\ data.exc = "none"
        /\ IF json_loads(TextoDecodificado(impl, resp.out)).ok
           THEN data.val = json_loads(TextoDecodificado(impl, resp.out)).val
           ELSE /\ IsParseMarker(data.val)
                /\ Len(data.val.items) = 2
                /\ Get(data.val, Key("_erro_parse_json")) = VTrue
                /\ Get(data.val, Key("_amostra_resposta")).t = "str"
                /\ Get(data.val, Key("_amostra_resposta")).v
                       = SubSeq(resp.out, 1, Len(Get(data.val, Key("_amostra_resposta")).v))
                /\ Len(resp.out) <= AmostraMaxMinerar
                       => Get(data.val, Key("_amostra_resposta")).v = resp.out

\* C9 witness: a malformed payload has been parsed into a failure marker.
C9_Witness ==
    /\ pc = "Parsed"
    /\ resp.out = <<"{", Q, "a">>
    /\ IsParseMarker(data.val)

\* C10 as stated: a valid payload wrapped in a code fence (no tag, or the tag
\* json in any case) decodes to the same value as the bare payload, and not to
\* a failure marker.
C10_Original ==
    pc = "Parsed" =>
        \A w \in JsonWrappers :
            LET n == Len(resp.out) - Len(Wrap(w, <<>>))
                c == IF w = "padded" THEN SubSeq(resp.out, 6, 5 + n) ELSE
                     IF w = "fence" THEN SubSeq(resp.out, 3, 2 + n) ELSE SubSeq(resp.out, 4, 3 + n)
            IN  (n >= 0 /\ resp.out = Wrap(w, c) /\ json_loads(c).ok)
                    => (data.exc = "none" /\ data.val = json_loads(c).val)

-----------------------------------------------------------------------------
(* Segmentation claims *)

SegDone == pc = "Segmented"

\* C1 (as amended): the lines of the returned blocks, in block order, are exactly
\* texto.splitlines(): no line is lost, duplicated, altered or reordered, at the
\* end and after every iteration of the loop; joining the blocks with newlines
\* gives the input's lines joined with newlines.
C1_LinesPreserved ==
    /\ pc = "Segmenting" =>
          BlockLines(seg.blocos) \o seg.atual = SubSeq(linhas, 1, li)
    /\ SegDone =>
          /\ BlockLines(blocos) = splitlines(corpus)
          /\ JoinNL(blocos) = JoinNL(splitlines(corpus))
          /\ (/\ \A k \in 1..Len(corpus) : corpus[k] # "\r"
              /\ (corpus = <<>> \/ corpus[Len(corpus)] # "\n"))
             => JoinNL(blocos) = corpus

\* C1 witness: a text with an empty line inside, cut into at least two blocks.
C1_Witness ==
    /\ SegDone
    /\ Len(blocos) >= 2
    /\ \E k \in 1..Len(linhas) : linhas[k] = <<>>
    /\ JoinNL(blocos) = corpus

\* C1 as stated: joining the blocks with newlines reconstructs the original text.
C1_Original == SegDone => JoinNL(blocos) = corpus

\* C2 as stated: every block other than a single line longer than max_chars has
\* an emitted length (lines joined with newline separators) of at most max_chars.
C2_Original ==
    SegDone =>
        \A k \in 1..Len(blocos) :
            ~(Len(SplitNL(blocos[k])) = 1 /\ Len(blocos[k]) > max_chars)
                => Len(blocos[k]) <= max_chars



-----------------------------------------------------------------------------
(* Claims about the run *)

AfterAnalysis == {"BlocksAnalyzed", "FusionCalled", "Aggregated", "Persisted"}

NumBlockCalls == Cardinality({k \in 1..Len(chamadas) : chamadas[k].chave = "MINERAR_ESTILO_BLOCO"})

\* C3: the block analyzer returns exactly one entry per block of the
\* segmenter; every call that was made, raising or not, has left its entry
\* as soon as the loop body has handled it, so no block is ever without one.
C3_OneResultPerBlock ==
    /\ Len(analises) = NumBlockCalls - (IF pc = "BlockCalled" THEN 1 ELSE 0)
    /\ Len(analises) <= Len(blocos)
    /\ pc \in AfterAnalysis => Len(analises) = Len(blocos) /\ NumBlockCalls = Len(blocos)

\* Four blocks whose calls all raised: four entries.
C3_Witness ==
    /\ pc = "BlocksAnalyzed"
    /\ Len(blocos) = 4
    /\ Len(analises) = 4
    /\ \A k \in 1..4 : chamadas[k].res.exc = "Exception"

ProvKeys == {Key("versao"), Key("gerado_em"), Key("_fonte")}

WellFormed(x) == IsDict(x) /\ \A k \in ProvKeys : HasKey(x, k)

\* C4: on every path of the fusion step (the call raises, returns text that
\* does not decode, decodes to a non-record, decodes to a record) the
\* aggregated value is a record with versao, gerado_em and _fonte, and the
\* persisted text decodes back to that record.
C4_ArtifactWellFormed ==
    /\ pc \in {"Aggregated", "Persisted"} => WellFormed(final)
    /\ pc = "Persisted" =>
          LET r == json_loads(stylebook) IN r.ok /\ WellFormed(r.val) /\ r.val = final

\* The fusion call returned a list: the fallback record is what is persisted.
C4_Witness ==
    /\ pc = "Persisted"
    /\ resp.exc = "none"
    /\ resp.out = RList
    /\ HasKey(final, Key("_erro_formato"))
    /\ stylebook # Velho


\* The states of the run as the specification names them.
EstadoDe(p) ==
    CASE p = "Idle" -> "Idle"
      [] p \in {"CorpusLoaded", "Segmenting"} -> "CorpusLoaded"
      [] p \in {"Segmented", "BlockCalled", "BlockRecorded"} -> "Segmented"
      [] p \in {"BlocksAnalyzed", "FusionCalled"} -> "BlocksAnalyzed"
      [] OTHER -> p

Permitidas ==
    { <<"Idle", "CorpusLoaded">>, <<"CorpusLoaded", "Segmented">>,
      <<"Segmented", "BlocksAnalyzed">>, <<"BlocksAnalyzed", "Aggregated">>,
      <<"Aggregated", "Persisted">>, <<"Idle", "Failed">>, <<"CorpusLoaded", "Failed">> }

\* C5: the run only moves Idle -> CorpusLoaded -> Segmented -> BlocksAnalyzed
\* -> Aggregated -> Persisted, or to Failed from Idle/CorpusLoaded; Failed is
\* entered only with an empty corpus and the RuntimeError of the corpus step,
\* and neither the block analyzer nor the aggregator ever ends in an exception,
\* whatever the external calls raise or return.
C5_FailureContainment ==
    /\ [][EstadoDe(pc') # EstadoDe(pc) => <<EstadoDe(pc), EstadoDe(pc')>> \in Permitidas]_vars
    /\ [](pc = "Failed" => corpus = <<>> /\ erro = "RuntimeError" /\ chamadas = <<>>)
    /\ [](pc # "Failed" => erro = "none")
    /\ [](data.exc = "none")

\* A run that persisted although a block call raised, a block payload did not
\* decode and the fusion call raised.
C5_Witness ==
    /\ pc = "Persisted"
    /\ Len(blocos) = 2
    /\ chamadas[1].res.exc = "Exception"
    /\ chamadas[2].res.exc = "none" /\ chamadas[2].res.out = RBad
    /\ chamadas[3].res.exc = "Exception"
    /\ HasKey(final, Key("_erro_fusao"))

\* Every document of the directory is empty or whitespace only (no document at all included).
AllBlank(docs) == \A n \in 1..Len(docs) : Strip(docs[n]) = <<>>

\* C6: when the directory holds no document, or only empty and whitespace-only
\* documents, the run once started is in Failed with a RuntimeError, no
\* external call was made, no result was collected, and the per-block records
\* and the final artifact are what they were before the run.
C6_EmptyCorpusFatalFirst ==
    (AllBlank(arquivos) /\ pc # "Idle") =>
        /\ pc = "Failed"
        /\ erro = "RuntimeError"
        /\ chamadas = <<>>
        /\ analises = <<>>
        /\ final = VNull
        /\ DOMAIN parciais = {} \/ parciais = ParciaisVelhas
        /\ stylebook \in {<<>>, Velho}

\* Two documents, one empty and one of whitespace only: the run failed and the
\* earlier run's files are still there.
C6_Witness ==
    /\ pc = "Failed"
    /\ arquivos = << <<>>, <<" ", "\n">> >>
    /\ chamadas = <<>>
    /\ stylebook = Velho

MarcadorChamada(x, msg) ==
    /\ IsDict(x)
    /\ HasKey(x, Key("_erro_chamada_ia")) /\ Get(x, Key("_erro_chamada_ia")) = VTrue
    /\ HasKey(x, Key("_mensagem")) /\ Get(x, Key("_mensagem")) = VStr(msg)

\* C7: every block whose call raised has, at its own position, a marker with
\* the _erro_chamada_ia flag and str(e); every other entry is the decoded
\* payload of its own call, whatever the other calls did; a raising call never
\* ends the run, and every block is dispatched.
C7_FailureIsolated ==
    /\ \A k \in 1..Len(analises) :
          LET r == chamadas[k].res IN
          /\ chamadas[k].chave = "MINERAR_ESTILO_BLOCO"
          /\ r.exc # "none" => MarcadorChamada(analises[k], r.msg)
          /\ r.exc = "none" => analises[k] = json_load_safely(impl, r.out).val
    /\ pc = "Failed" => chamadas = <<>>
    /\ pc \in AfterAnalysis => NumBlockCalls = Len(blocos)

\* Three blocks, the call of the second raised: entries 1 and 3 are the decoded record.
C7_Witness ==
    /\ pc = "BlocksAnalyzed"
    /\ Len(blocos) = 3
    /\ chamadas[1].res.out = RDict /\ chamadas[3].res.out = RDict
    /\ chamadas[2].res.exc = "Exception"
    /\ MarcadorChamada(analises[2], ErroIA)
    /\ HasKey(analises[1], Key("tom")) /\ analises[3] = analises[1]

\* C8: the blocks are the segmenter's, in the order of the corpus lines; the
\* k-th external call is made for block k and the k-th entry is the result of
\* that call; the fusion call, when it is made, comes after all of them and
\* its payload decodes to the list of the entries in the order 1..N.
C8_OrderPreserved ==
    /\ pc = "Segmented" =>
          /\ blocos = dividir_em_blocos(corpus, max_chars)
          /\ BlockLines(blocos) = splitlines(corpus)
    /\ \A k \in 1..NumBlockCalls :
          chamadas[k].chave = "MINERAR_ESTILO_BLOCO" /\ chamadas[k].arg = blocos[k]
    /\ \A k \in 1..Len(analises) : analises[k] = AnalisarBloco(impl, chamadas[k].res).val
    /\ pc = "FusionCalled" =>
          /\ Len(chamadas) = Len(blocos) + 1
          /\ chamadas[Len(chamadas)].chave = "MINERAR_ESTILO_FUSAO"
          /\ LET r == json_loads(chamadas[Len(chamadas)].arg) IN
                /\ r.ok
                /\ r.val.t = "list"
                /\ r.val.elems = [k \in 1..Len(blocos) |-> AnalisarBloco(impl, chamadas[k].res).val]

\* Two blocks with different results, fused and persisted.
C8_Witness ==
    /\ pc = "Persisted"
    /\ Len(blocos) = 2
    /\ blocos[1] # blocos[2]
    /\ chamadas[1].res.out = RList
    /\ chamadas[2].res.out = RDict
    /\ analises[1] # analises[2]


\* C11 as stated: every entry recorded for a block is a record, be it the
\* decoded record or a failure marker with its error flag, whatever text the
\* external service returned for the block.
C11_Original == \A k \in 1..Len(analises) : IsDict(analises[k])

\* C12 as stated: a non-empty corpus never yields an empty block.
C12_Original == (SegDone /\ corpus # <<>>) => \A k \in 1..Len(blocos) : blocos[k] # <<>>

\* The value the fusion call's text decodes to, once the call has returned.
Fundido == json_load_safely(impl, resp.out).val

AposFusao == pc \in {"Aggregated", "Persisted"}

Chaves(d) == {d.items[n][1] : n \in 1..Len(d.items)}

\* The three provenance fields as this aggregation sets them.
Carimbado(x) ==
    /\ HasKey(x, Key("versao")) /\ Get(x, Key("versao")) = VStr(<<"2.0-blocos">>)
    /\ HasKey(x, Key("gerado_em")) /\ Get(x, Key("gerado_em")) = IsoFormat(relogio - 1)
    /\ HasKey(x, Key("_fonte")) /\ Get(x, Key("_fonte")) = VStr(<<"fusao_de_blocos">>)

\* str() of what the texts RList, RStr, RNum, RNull decode to.
AmostraEsperada(out) ==
    CASE out = RList -> <<"[", "1", "]">>
      [] out = RStr -> <<"not", " ", "json">>
      [] out = RNum -> <<"1">>
      [] out = RNull -> <<"None">>
      [] OTHER -> <<>>

\* C13: when the fusion text decodes to a list, a string, a number or null,
\* the artifact is a record of exactly five fields: _erro_formato true,
\* _amostra the str() of the value, and the three provenance fields; and when
\* the fusion call returns the text not json, the artifact is the
\* parse-failure record whose sample is that text, with the three provenance
\* fields.
C13_ShapeFailure ==
    (AposFusao /\ resp.exc = "none") =>
        /\ ~IsDict(Fundido) =>
              /\ IsDict(final)
              /\ Len(final.items) = 5
              /\ Chaves(final) = {Key("_erro_formato"), Key("_amostra")} \cup ProvKeys
              /\ Get(final, Key("_erro_formato")) = VTrue
              /\ Get(final, Key("_amostra")) = VStr(AmostraEsperada(resp.out))
              /\ Carimbado(final)
        /\ resp.out = RBad =>
              /\ IsDict(final)
              /\ Chaves(final) = {Key("_erro_parse_json"), Key("_amostra_resposta")} \cup ProvKeys
              /\ Get(final, Key("_erro_parse_json")) = VTrue
              /\ Get(final, Key("_amostra_resposta")) = VStr(<<"not", " ", "json">>)
              /\ Carimbado(final)

\* The fusion call returned the JSON string "not json": the fallback record is persisted.
C13_Witness ==
    /\ pc = "Persisted"
    /\ resp.exc = "none"
    /\ resp.out = RStr
    /\ Get(final, Key("_amostra")) = VStr(<<"not", " ", "json">>)
    /\ json_loads(stylebook).val = final

\* C14: when the fusion call raises, the aggregator returns (it does not
\* raise) the record of _erro_fusao true and _mensagem str(e); the artifact is
\* that record plus the three provenance fields and nothing of the parser
\* (no _erro_parse_json, no sample), and it is what the run persists.
C14_InvocationFailure ==
    /\ (pc = "FusionCalled" /\ resp.exc # "none") => FundirResultado(impl, resp).exc = "none"
    /\ (AposFusao /\ resp.exc # "none") =>
          /\ data.exc = "none"
          /\ IsDict(final)
          /\ Chaves(final) = {Key("_erro_fusao"), Key("_mensagem")} \cup ProvKeys
          /\ Len(final.items) = 5
          /\ Get(final, Key("_erro_fusao")) = VTrue
          /\ Get(final, Key("_mensagem")) = VStr(resp.msg)
          /\ Carimbado(final)
          /\ pc = "Persisted" => stylebook = json_dumps(final) /\ json_loads(stylebook).val = final
    /\ pc = "Failed" => chamadas = <<>>

\* Two blocks analysed, the fusion call raised, the failure record was persisted.
C14_Witness ==
    /\ pc = "Persisted"
    /\ Len(blocos) = 2
    /\ resp.exc = "Exception"
    /\ Get(final, Key("_mensagem")) = VStr(ErroIA)
    /\ stylebook = json_dumps(final)

\* C15: when the fusion text decodes to a record, every field of that record
\* other than gerado_em is in the artifact with its value unchanged (a version
\* tag it brought included), the artifact has no field beyond the record's and
\* the three provenance fields, and gerado_em is the time of this aggregation
\* even when the record brought its own.
C15_VersionKept ==
    (AposFusao /\ resp.exc = "none" /\ IsDict(Fundido)) =>
        /\ IsDict(final)
        /\ Chaves(final) = Chaves(Fundido) \cup ProvKeys
        /\ \A k \in Chaves(Fundido) \ {Key("gerado_em")} : Get(final, k) = Get(Fundido, k)
        /\ Get(final, Key("gerado_em")) = IsoFormat(relogio - 1)
        /\ ~HasKey(Fundido, Key("versao")) => Get(final, Key("versao")) = VStr(<<"2.0-blocos">>)

\* The fusion record came with versao "9" and gerado_em "ontem": the version
\* is kept, the timestamp is replaced.
C15_Witness ==
    /\ pc = "Persisted"
    /\ resp.out = RDictProv
    /\ Get(Fundido, Key("versao")) = VStr(<<"9">>)
    /\ Get(Fundido, Key("gerado_em")) = VStr(<<"ontem">>)
    /\ Get(final, Key("versao")) = VStr(<<"9">>)
    /\ Get(final, Key("gerado_em")) # VStr(<<"ontem">>)

\* C16 as stated: whenever the fusion text decodes to a record, the artifact's
\* _fonte is the block-fusion tag, also when the record brought a _fonte of its own.
C16_Original ==
    (AposFusao /\ resp.exc = "none" /\ IsDict(Fundido)) =>
        (HasKey(final, Key("_fonte")) /\ Get(final, Key("_fonte")) = VStr(<<"fusao_de_blocos">>))

-----------------------------------------------------------------------------
(* Claims about several runs *)

\* Two records agree on every field but gerado_em.
IguaisSalvoData(x, y) ==
    /\ IsDict(x) /\ IsDict(y)
    /\ Chaves(x) = Chaves(y)
    /\ Len(x.items) = Len(y.items)
    /\ \A k \in Chaves(x) \ {Key("gerado_em")} : Get(x, k) = Get(y, k)

\* C17: two aggregations of the same list of results, to which the external
\* service gave the same outcome (the same text, or the same raise), give
\* artifacts that agree on every field but gerado_em.
C17_IdempotentProvenance ==
    \A a \in 1..Len(historico) : \A b \in 1..Len(historico) :
        (historico[a].analises = historico[b].analises /\ historico[a].res = historico[b].res)
            => IguaisSalvoData(historico[a].final, historico[b].final)

\* Two runs aggregated the same results with the same fusion text; the two
\* artifacts differ, in their timestamps only.
C17_Witness ==
    /\ Len(historico) = 2
    /\ historico[1].analises = historico[2].analises
    /\ historico[1].analises # <<>>
    /\ historico[1].res = historico[2].res
    /\ historico[1].res.out = RDict
    /\ historico[1].final # historico[2].final
    /\ Get(historico[1].final, Key("gerado_em")) # Get(historico[2].final, Key("gerado_em"))

-----------------------------------------------------------------------------
(* Claims about the durable writes of one run *)

\* C18: the per-block records change only at the end of a loop iteration,
\* which happens once for each index 1..N in turn; with persistence enabled
\* that step writes the serialization of entry i of the result list to the
\* file named by the zero-padded index i alone, and with persistence disabled
\* it writes nothing; after the loop the records 1..N hold the entries 1..N;
\* different indices have different file names, beyond 99 too.
C18_WriteContract ==
    /\ [][IF pc = "BlockRecorded"
          THEN /\ i' = i + 1
               /\ parciais' = IF Salva
                              THEN WriteText(parciais, NomeParcial(i'), json_dumps(analises[i']))
                              ELSE parciais
          ELSE i' = i /\ parciais' = parciais]_vars
    /\ [](pc \in AfterAnalysis =>
            /\ i = Len(blocos)
            /\ Salva => \A k \in 1..Len(blocos) :
                           /\ NomeParcial(k) \in DOMAIN parciais
                           /\ parciais[NomeParcial(k)] = json_dumps(analises[k]))
    /\ [](~Salva => (DOMAIN parciais = {} \/ parciais = ParciaisVelhas))
    /\ [](pc = "Idle" =>
            /\ Cardinality({NomeParcial(k) : k \in 1..MaxIndice}) = MaxIndice
            /\ NomeParcial(7) = <<"stylebook_parcial_", "0", "7", ".json">>
            /\ NomeParcial(42) = <<"stylebook_parcial_", "4", "2", ".json">>
            /\ NomeParcial(100) = <<"stylebook_parcial_", "1", "0", "0", ".json">>)

\* Three blocks with persistence enabled over the files of an earlier run:
\* records 1..3 are this run's entries, record 4 is still the old one.
C18_Witness ==
    /\ pc = "BlocksAnalyzed"
    /\ Salva
    /\ Len(blocos) = 3
    /\ analises[1] # analises[2]
    /\ DOMAIN parciais = DOMAIN ParciaisVelhas
    /\ parciais[NomeParcial(1)] = json_dumps(analises[1])
    /\ parciais[NomeParcial(2)] = json_dumps(analises[2])
    /\ parciais[NomeParcial(3)] = json_dumps(analises[3])
    /\ parciais[NomeParcial(4)] = Velho

-----------------------------------------------------------------------------
(* Claims about the sample of the parse-failure marker *)

DecodeFalhou == pc = "Parsed" /\ ~json_loads(TextoDecodificado(impl, resp.out)).ok

Amostra(x) == Get(x, Key("_amostra_resposta")).v

Prefixo(s, t) == Len(s) <= Len(t) /\ s = SubSeq(t, 1, Len(s))

\* C19 (as amended): on a decode failure the marker's sample is a prefix of the
\* payload as received, of length min(len(payload), limit), where the limit
\* belongs to the implementation and not to the call site: 1000 in StyleMiner
\* and 800 in minerar_estilo.py, for per-block and fusion results alike.
C19_SampleTruncated ==
    DecodeFalhou =>
        LET limite == IF impl = "pipeline" THEN 1000 ELSE 800 IN
        /\ IsParseMarker(data.val)
        /\ Prefixo(Amostra(data.val), resp.out)
        /\ Len(Amostra(data.val)) = IF Len(resp.out) <= limite THEN Len(resp.out) ELSE limite
        /\ AnalisarBloco(impl, resp).val = data.val
        /\ FundirResultado(impl, resp).val = data.val

\* A payload of 1001 characters behind a leading blank was cut by StyleMiner.
C19_Witness ==
    /\ pc = "Parsed"
    /\ impl = "pipeline"
    /\ Len(resp.out) = 1002
    /\ resp.out[1] = " "
    /\ Len(Amostra(data.val)) = 1000
    /\ Amostra(data.val)[1] = " "

\* C19 as stated: the sample is a prefix of the payload as received, the whole
\* payload when it fits, and never longer than 800 characters for a per-block
\* result and 1000 characters for the fusion result.
C19_Original ==
    DecodeFalhou =>
        LET bloco == Amostra(AnalisarBloco(impl, resp).val)
            fusao == Amostra(FundirResultado(impl, resp).val)
        IN  /\ Prefixo(bloco, resp.out) /\ Prefixo(fusao, resp.out)
            /\ Len(bloco) = IF Len(resp.out) <= 800 THEN Len(resp.out) ELSE 800
            /\ Len(fusao) = IF Len(resp.out) <= 1000 THEN Len(resp.out) ELSE 1000

-----------------------------------------------------------------------------
(* Claims about the final artifact over several runs *)

\* The aggregations whose artifact has been written: all but the one of a run
\* that has aggregated and not yet persisted.
Persistidas == IF pc = "Aggregated" THEN Len(historico) - 1 ELSE Len(historico)

\* C20: over any sequence of runs the final artifact file changes only in the
\* step from Aggregated to Persisted, which each run takes at most once and
\* which replaces the whole content by the serialization of that run's
\* artifact; so the file always holds the artifact of the latest run that
\* reached Persisted, or what it held before the first of them.
C20_FinalOverwrite ==
    /\ [][IF pc = "Aggregated"
          THEN pc' = "Persisted" /\ stylebook' = json_dumps(final)
          ELSE stylebook' = stylebook /\ pc' # "Persisted"]_vars
    /\ [](pc \in {"Aggregated", "Persisted"} => final = historico[Len(historico)].final)
    /\ [](IF Persistidas = 0
          THEN stylebook \in {<<>>, Velho}
          ELSE stylebook = json_dumps(historico[Persistidas].final))

\* A second run persisted over the artifact of the first.
C20_Witness ==
    /\ pc = "Persisted"
    /\ Len(historico) = 2
    /\ historico[1].res.out = RDict
    /\ historico[2].res.exc = "Exception"
    /\ stylebook = json_dumps(historico[2].final)
    /\ stylebook # json_dumps(historico[1].final)

-----------------------------------------------------------------------------
(* Further claims about the segmenter *)

\* C21: any two calls of the segmenter with the same text and the same
\* max_chars returned the same sequence of blocks, whatever was called before.
C21_SegDeterministic ==
    \A a \in 1..Len(segmentacoes) : \A b \in 1..Len(segmentacoes) :
        (segmentacoes[a].texto = segmentacoes[b].texto
            /\ segmentacoes[a].max_chars = segmentacoes[b].max_chars)
            => segmentacoes[a].blocos = segmentacoes[b].blocos

\* The segmenter was called twice with a text it cuts into three blocks.
C21_Witness ==
    /\ pc = "Segmented"
    /\ Len(segmentacoes) = 2
    /\ segmentacoes[1].texto = segmentacoes[2].texto
    /\ Len(segmentacoes[1].blocos) = 3
    /\ segmentacoes[2].blocos = blocos

-----------------------------------------------------------------------------
(* Liveness of the run *)

\* C22: a run whose corpus is not empty reaches Persisted, whatever the
\* external calls return or raise; it has then made one call per block, in
\* order, followed by one fusion call, and it takes no further step.
C22_RunLiveness ==
    /\ (pc = "CorpusLoaded") ~> (pc = "Persisted")
    /\ [](pc = "Persisted" =>
            /\ Len(chamadas) = Len(blocos) + 1
            /\ \A k \in 1..Len(blocos) : chamadas[k].chave = "MINERAR_ESTILO_BLOCO"
            /\ chamadas[Len(chamadas)].chave = "MINERAR_ESTILO_FUSAO")
    /\ [][pc # "Persisted"]_vars

\* A run of two blocks has persisted after two block calls, one of which
\* raised, and a fusion call whose answer was not JSON.
C22_Witness ==
    /\ pc = "Persisted"
    /\ Len(blocos) = 2
    /\ Len(chamadas) = 3
    /\ chamadas[2].res.exc = "Exception"
    /\ chamadas[3].res.out = RBad

-----------------------------------------------------------------------------
(* Order of the events of a run and the prefix of per-block records *)

\* The per-block records whose content this run has written.
EscritasNestaExecucao == {n \in DOMAIN parciais : parciais[n] # Velho}

PrefixoParcial(k) == {NomeParcial(n) : n \in 1..k}

\* C23: the calls are made in the order of the blocks, the call for block
\* i+1 only after the result of block i is appended and, when partials are
\* saved, its record written; the fusion call only after all N results. The
\* records written by this run are exactly those of the i completed
\* iterations, which is the number of results appended or one less (the
\* result is appended before its record is written), and none when partials
\* are not saved; the final artifact is not written before all N results.
C23_PrefixCheckpoint ==
    /\ \A k \in 1..NumBlockCalls :
          chamadas[k].chave = "MINERAR_ESTILO_BLOCO" /\ chamadas[k].arg = blocos[k]
    /\ pc = "BlockCalled" => NumBlockCalls = i + 1 /\ Len(analises) = i
    /\ Len(analises) = i + (IF pc = "BlockRecorded" THEN 1 ELSE 0)
    /\ EscritasNestaExecucao = IF Salva THEN PrefixoParcial(i) ELSE {}
    /\ Len(chamadas) > NumBlockCalls => Len(analises) = Len(blocos) /\ i = Len(blocos)
    /\ (Len(analises) < Len(blocos) \/ pc # "Persisted") => stylebook \in {<<>>, Velho}

\* The second result is appended and its record is not yet written, next to
\* records of an earlier run.
C23_Witness ==
    /\ pc = "BlockRecorded"
    /\ Salva
    /\ Len(analises) = 2
    /\ EscritasNestaExecucao = PrefixoParcial(1)
    /\ NomeParcial(2) \in DOMAIN parciais

\* C23 as stated: with partials saved, the records written by this run are
\* at every moment those of indices 1..k, k the number of results so far.
C23_Original ==
    Salva => EscritasNestaExecucao = PrefixoParcial(Len(analises))

-----------------------------------------------------------------------------
(* The blocks of the segmenter *)

\* The line-content tally of an emitted block.
Tally(b) == SumLen(SplitNL(b))

HasLongLine(ls, mc) == \E j \in 1..Len(ls) : Len(ls[j]) > mc

\* C24: every block of more than one line has a tally of at most max_chars,
\* in the buffer while it is filled and in the blocks emitted; a line longer
\* than max_chars is emitted whole, as a block of that line alone.
C24_TallyRule ==
    /\ pc = "Segmenting" =>
          /\ seg.tamanho = SumLen(seg.atual)
          /\ Len(seg.atual) > 1 => seg.tamanho <= max_chars
          /\ HasLongLine(seg.atual, max_chars) => Len(seg.atual) = 1
    /\ SegDone =>
          /\ \A k \in 1..Len(blocos) :
                /\ Len(SplitNL(blocos[k])) > 1 => Tally(blocos[k]) <= max_chars
                /\ HasLongLine(SplitNL(blocos[k]), max_chars) => Len(SplitNL(blocos[k])) = 1
          /\ \A j \in 1..Len(linhas) :
                Len(linhas[j]) > max_chars => \E k \in 1..Len(blocos) : blocos[k] = linhas[j]

\* An empty line, a line longer than max_chars, an empty line: three blocks.
C24_Witness ==
    /\ SegDone
    /\ max_chars = 1
    /\ corpus = <<"\n", "a", "a", "\n", "\n", "a">>
    /\ blocos = << <<>>, <<"a", "a">>, <<"\n", "a">> >>

\* C25: the tally of a block plus the length of the first line of the block
\* after it is greater than max_chars: a block is closed only by a line that
\* does not fit.
C25_GreedyMaximal ==
    /\ pc = "Segmenting" =>
          \A k \in 1..Len(seg.blocos) :
              Tally(seg.blocos[k])
                + Len(SplitNL(IF k < Len(seg.blocos) THEN seg.blocos[k + 1] ELSE JoinNL(seg.atual))[1])
                > max_chars
    /\ SegDone =>
          \A k \in 1..(Len(blocos) - 1) :
              Tally(blocos[k]) + Len(SplitNL(blocos[k + 1])[1]) > max_chars

\* Two lines fill the first block exactly; the third line opens the second.
C25_Witness ==
    /\ SegDone
    /\ max_chars = 3
    /\ corpus = <<"a", "\n", "a", "a", "\n", "a">>
    /\ blocos = << <<"a", "\n", "a", "a">>, <<"a">> >>

\* C26: three lines of one length L with L <= max_chars < 2L give three
\* blocks of one line each; there are never more blocks than lines, and a
\* text without lines gives no block.
C26_ScenarioA ==
    SegDone =>
        /\ \A n \in 1..MaxLinha :
              (corpus = TresLinhas(n) /\ n <= max_chars /\ max_chars < 2 * n)
                  => blocos = <<[k \in 1..n |-> "a"], [k \in 1..n |-> "a"], [k \in 1..n |-> "a"]>>
        /\ Len(blocos) <= Len(splitlines(corpus))
        /\ splitlines(corpus) = <<>> => blocos = <<>>

C26_Witness ==
    /\ SegDone
    /\ corpus = TresLinhas(2)
    /\ max_chars = 3
    /\ Len(blocos) = 3

-----------------------------------------------------------------------------
(* The block size given to a run *)

\* C27 as stated: a run configured with max_chars <= 0 is rejected before the
\* segmenter is invoked and before any external call is made: it gets no
\* further than the loaded corpus.
C27_Original ==
    max_chars <= 0 =>
        /\ pc \in {"Idle", "CorpusLoaded", "Failed"}
        /\ segmentacoes = <<>>
        /\ chamadas = <<>>

-----------------------------------------------------------------------------
(* Records of an earlier run *)

\* C28: a step of the run leaves every per-block record but the one of the
\* iteration at hand as it was, none deleted; after the loop of a run that
\* saves partials, the records 1..N hold this run's results, and whatever an
\* earlier run left beyond N is still there, unchanged.
C28_StaleCheckpoints ==
    /\ [][\A n \in DOMAIN parciais :
              n # NomeParcial(i + 1) => (n \in DOMAIN parciais' /\ parciais'[n] = parciais[n])]_vars
    /\ [](pc \in AfterAnalysis /\ Salva =>
            /\ \A k \in 1..Len(analises) :
                  /\ NomeParcial(k) \in DOMAIN parciais
                  /\ parciais[NomeParcial(k)] = json_dumps(analises[k])
            /\ \A n \in DOMAIN parciais \ PrefixoParcial(Len(analises)) : parciais[n] = Velho
            /\ DOMAIN parciais \in {PrefixoParcial(Len(analises)),
                                    PrefixoParcial(Len(analises)) \cup DOMAIN ParciaisVelhas})

\* A run of two blocks has ended over the five records of an earlier run.
C28_Witness ==
    /\ pc = "Persisted"
    /\ Salva
    /\ Len(analises) = 2
    /\ DOMAIN parciais = DOMAIN ParciaisVelhas
    /\ Cardinality(DOMAIN parciais) > Len(analises)
    /\ parciais[NomeParcial(1)] = json_dumps(analises[1])
    /\ parciais[NomeParcial(3)] = Velho

-----------------------------------------------------------------------------
(* A run that fails *)

\* C29: a run ends in Failed only by the empty-corpus check, in its first
\* step, and that step, like the start of a run, leaves the final artifact
\* and every per-block record as they were: at Failed the file of the final
\* artifact still holds what the last persisted run wrote, and no call was made.
C29_FailedRunKeepsFiles ==
    /\ [][(pc' = "Failed" /\ pc # "Failed") =>
              /\ pc = "Idle"
              /\ corpus' = <<>>
              /\ erro' = "RuntimeError"
              /\ parciais' = parciais
              /\ stylebook' = stylebook]_vars
    /\ [][pc' = "Idle" => (parciais' = parciais /\ stylebook' = stylebook)]_vars
    /\ [](pc = "Failed" =>
            /\ chamadas = <<>>
            /\ segmentacoes = <<>> \/ historico # <<>>
            /\ historico # <<>> => stylebook = json_dumps(historico[Len(historico)].final))

\* A run has persisted an artifact and a record; the run after it found no
\* text and failed.
C29_Witness ==
    /\ pc = "Failed"
    /\ erro = "RuntimeError"
    /\ historico # <<>>
    /\ stylebook = json_dumps(historico[Len(historico)].final)
    /\ NomeParcial(1) \in DOMAIN parciais
    /\ parciais[NomeParcial(1)] # Velho

-----------------------------------------------------------------------------
(* The two implementations of the segmenter *)

\* C30: whichever implementation ran, the blocks returned are those of the
\* pipeline's segmenter for the same text and max_chars, after every line and
\* at the end; a text that is not empty and has no blank at either end gives
\* at least one block, so the list of results handed to fusion is not empty.
C30_SameSegmentation ==
    /\ pc = "Segmenting" =>
          seg = SegLoop(SegInit, SubSeq(linhas, 1, li), max_chars)
    /\ SegDone =>
          /\ blocos = dividir_em_blocos(corpus, max_chars)
          /\ \A n \in 1..Len(segmentacoes) :
                segmentacoes[n].blocos
                    = dividir_em_blocos(segmentacoes[n].texto, segmentacoes[n].max_chars)
          /\ (corpus # <<>> /\ Strip(corpus) = corpus) => Len(blocos) >= 1

\* The segmenter of minerar_estilo.py has returned two blocks for a trimmed text.
C30_Witness ==
    /\ SegDone
    /\ impl = "minerar"
    /\ corpus = <<"a", "\n", "a", "a">>
    /\ max_chars = 2
    /\ blocos = << <<"a">>, <<"a", "a">> >>

====
